---------------------------- MODULE Spec2Model ----------------------------
(***************************************************************************)
(* A model of the cellular automaton of src/src/main.rs: the World (rows,  *)
(* rules, generation), the neighbourhood codec (the From conversions       *)
(* between u32, [CellState; 9], InputState and RuleState), the rule table  *)
(* built by randomize_rules, World::update, World::draw and the grid       *)
(* commands of the event loop (reseed, K = clear, R = random fill).        *)
(*                                                                         *)
(* Sequences are 1-based: element i of a Rust array is element i + 1 here. *)
(***************************************************************************)
EXTENDS Integers, Sequences, FiniteSets, TLC

(***************************************************************************)
(* Bounds of the model.                                                    *)
(***************************************************************************)

\* const WIDTH (640 in the source), scaled down.
WIDTH == 4

\* const HEIGHT (480 in the source), scaled down.
HEIGHT == 3

\* Width in bits of World::generation (u32 in the source), scaled down so
\* that the counter reaches its maximum within the model.
GenerationBits == 1

\* Seeds handed to randomize_rules are 0..MaxSeed.
MaxSeed == 2

\* The grids a run of World::update or World::draw on its own starts from
\* have at most MaxOn cells On, or at most MaxOn cells Off.
MaxOn == 1

\* In a run of the whole program, the coin flips of a grid fill (World::new,
\* reseed, R) come out On for the first MaxFillOn cells (in row-major order)
\* and Off for the others, or the other way round.
MaxFillOn == 1

\* World::draw is handed buffers of 0 .. 4 * (WIDTH * HEIGHT + ExtraPixels) bytes.
ExtraPixels == 1

\* The codec decodes the integers 0 .. 2^9 + ExtraIndices - 1.
ExtraIndices == 8

\* A rule table that lacks entries lacks those of the indices divisible by
\* d, for a d in 1..MaxDropStride (d = 1: the empty table).
MaxDropStride == 2

(***************************************************************************)
(* Program constants.                                                      *)
(***************************************************************************)

\* [CellState; 9]: the cells of a neighbourhood.
NeighborhoodSize == 9

\* A loop bound of 2^8, one bit short of the 9 cells.
RuleIterationsTooFew == 2 ^ (NeighborhoodSize - 1)

\* for i in 0..362880_u32
RuleIterations == 362880

WIDTH_USIZE == WIDTH
HEIGHT_USIZE == HEIGHT

\* u32::MAX, at the scaled width.
GenerationMax == 2 ^ GenerationBits - 1

CellState == {"On", "Off"}

\* InputState(pub [CellState; 9])
InputStates == [1..NeighborhoodSize -> CellState]

\* The integers whose low 9 bits are all that From<u32> for InputState reads.
NumKeys == 2 ^ NeighborhoodSize

RowIdx == 0..(HEIGHT_USIZE - 1)
ColIdx == 0..(WIDTH_USIZE - 1)
Cells == RowIdx \X ColIdx

\* Length in bytes of the frame the event loop hands to World::draw
\* (Pixels::new(WIDTH, HEIGHT, ..), 4 bytes per pixel).
FrameLen == 4 * WIDTH_USIZE * HEIGHT_USIZE

Seeds == 0..MaxSeed

(***************************************************************************)
(* The codec.                                                              *)
(***************************************************************************)

\* impl From<&CellState> for u32
U32FromCellState(value) == IF value = "On" THEN 1 ELSE 0

\* value >> n on a u32
Shr(value, n) == value \div (2 ^ n)

\* value << n on a u32, for the operands of the codec: value is 0 or 1 and
\* n at most 8, so no bit is shifted out.
Shl(value, n) == value * (2 ^ n)

\* value & 0x1
And1(value) == value % 2

\* The decoding with the shift of the last element copied from the one
\* before it.
InputStateFromU32Bit7Twice(value) ==
    << IF And1(Shr(value, 0)) = 1 THEN "On" ELSE "Off",
       IF And1(Shr(value, 1)) = 1 THEN "On" ELSE "Off",
       IF And1(Shr(value, 2)) = 1 THEN "On" ELSE "Off",
       IF And1(Shr(value, 3)) = 1 THEN "On" ELSE "Off",
       IF And1(Shr(value, 4)) = 1 THEN "On" ELSE "Off",
       IF And1(Shr(value, 5)) = 1 THEN "On" ELSE "Off",
       IF And1(Shr(value, 6)) = 1 THEN "On" ELSE "Off",
       IF And1(Shr(value, 7)) = 1 THEN "On" ELSE "Off",
       IF And1(Shr(value, 7)) = 1 THEN "On" ELSE "Off" >>

\* impl From<u32> for InputState (decode)
InputStateFromU32(value) ==
    << IF And1(Shr(value, 0)) = 1 THEN "On" ELSE "Off",
       IF And1(Shr(value, 1)) = 1 THEN "On" ELSE "Off",
       IF And1(Shr(value, 2)) = 1 THEN "On" ELSE "Off",
       IF And1(Shr(value, 3)) = 1 THEN "On" ELSE "Off",
       IF And1(Shr(value, 4)) = 1 THEN "On" ELSE "Off",
       IF And1(Shr(value, 5)) = 1 THEN "On" ELSE "Off",
       IF And1(Shr(value, 6)) = 1 THEN "On" ELSE "Off",
       IF And1(Shr(value, 7)) = 1 THEN "On" ELSE "Off",
       IF And1(Shr(value, 8)) = 1 THEN "On" ELSE "Off" >>

\* impl From<[CellState; 9]> for InputState: an element-wise copy.
InputStateFromArray(value) ==
    << value[1], value[2], value[3], value[4], value[5], value[6], value[7],
       value[8], value[9] >>

\* a | b for operands that share no set bit below 2^n: bit i of the result
\* is set iff it is set in a or in b.
RECURSIVE BitOr(_, _, _)
BitOr(a, b, n) ==
    IF n = 0 THEN 0
    ELSE (IF a % 2 = 1 \/ b % 2 = 1 THEN 1 ELSE 0)
         + 2 * BitOr(a \div 2, b \div 2, n - 1)

Or32(a, b) == BitOr(a, b, 32)

\* The encoding with the shifts of elements 0 and 1 exchanged.
RuleStateFromArraySwapped(pixel_states) ==
    LET pixel_states_as_u32 == [idx \in 1..NeighborhoodSize |->
                                   U32FromCellState(pixel_states[idx])]
    IN  Or32(Or32(Or32(Or32(Or32(Or32(Or32(Or32(
            Shl(pixel_states_as_u32[1], 1),
            Shl(pixel_states_as_u32[2], 0)),
            Shl(pixel_states_as_u32[3], 2)),
            Shl(pixel_states_as_u32[4], 3)),
            Shl(pixel_states_as_u32[5], 4)),
            Shl(pixel_states_as_u32[6], 5)),
            Shl(pixel_states_as_u32[7], 6)),
            Shl(pixel_states_as_u32[8], 7)),
            Shl(pixel_states_as_u32[9], 8))

\* impl From<[CellState; 9]> for RuleState (encode); RuleState(u32) is the u32.
RuleStateFromArray(pixel_states) ==
    LET pixel_states_as_u32 == [idx \in 1..NeighborhoodSize |->
                                   U32FromCellState(pixel_states[idx])]
    IN  Or32(Or32(Or32(Or32(Or32(Or32(Or32(Or32(
            Shl(pixel_states_as_u32[1], 0),
            Shl(pixel_states_as_u32[2], 1)),
            Shl(pixel_states_as_u32[3], 2)),
            Shl(pixel_states_as_u32[4], 3)),
            Shl(pixel_states_as_u32[5], 4)),
            Shl(pixel_states_as_u32[6], 5)),
            Shl(pixel_states_as_u32[7], 6)),
            Shl(pixel_states_as_u32[8], 7)),
            Shl(pixel_states_as_u32[9], 8))


(***************************************************************************)
(* The pseudo-random generator and the rule table.                         *)
(***************************************************************************)

\* rng.gen::<f32>() of ChaCha8Rng::seed_from_u64(seed): draw number n (from
\* 0) of the stream of `seed`, as the first decimal digit of the value in
\* [0, 1).  A fixed function of (seed, n); the mixing stands for ChaCha8's.
Gen(seed, n) ==
    LET h == (seed * 89 + 13) * (n + 17) + (n \div 7) * (seed + 3)
             + (n \div 512) * 29
    IN  (h \div 10 + h) % 10

\* if rng.gen::<f32>() < 0.1 { CellState::On } else { CellState::Off }
RuleOfDraw(tenths) == IF tenths < 1 THEN "On" ELSE "Off"

\* The residues k below NumKeys of the loop indices 0..RuleIterations - 1.
\* i.into() reads bits 0..8 of i only, so the indices k, k + 512, k + 1024,
\* ... all insert under one key.
InsertedResidues == {k \in 0..(NumKeys - 1) : k < RuleIterations}

\* The last loop index of residue k: the next one, NumKeys further, is past
\* the end of the loop.
LastInsertedAt(k) ==
    CHOOSE n \in {k + NumKeys * j : j \in 0..(RuleIterations \div NumKeys)} :
        n < RuleIterations /\ n + NumKeys >= RuleIterations

\* The number of rng.gen::<f32>() calls of one randomize_rules call: one per
\* loop index.
DrawsPerBuild == RuleIterations

\* The map after inserting every entry of `later` into `earlier`:
\* HashMap::insert replaces the value of a key already present.
InsertAll(earlier, later) == later @@ earlier

\* The loop of randomize_rules over the residues lo..hi - 1, from the empty
\* map, with the inserts that a later iteration replaces left out: of the
\* indices of one residue only the last one's insert survives.  Index n
\* draws Gen(seed, n) (draw number n of the stream) and inserts under
\* n.into().  The range is halved to keep the evaluation shallow.
RECURSIVE InsertLoop(_, _, _)
InsertLoop(seed, lo, hi) ==
    IF hi <= lo THEN <<>>
    ELSE IF hi = lo + 1
    THEN LET n == LastInsertedAt(lo)
         IN  InputStateFromU32(n) :> RuleOfDraw(Gen(seed, n))
    ELSE LET mid == (lo + hi) \div 2
         IN  InsertAll(InsertLoop(seed, lo, mid), InsertLoop(seed, mid, hi))

\* fn randomize_rules(seed: u64) -> Rules, from Rules::with_capacity(362880),
\* the empty map.
randomize_rules(seed) == InsertLoop(seed, 0, Cardinality(InsertedResidues))

\* The tables of the seeds of the model, built once: <<seed, table>> pairs.
BuiltTables == {<<s, randomize_rules(s)>> : s \in Seeds}

\* The table randomize_rules(s) returns.
RuleTable(s) == (CHOOSE p \in BuiltTables : p[1] = s)[2]

(***************************************************************************)
(* Grids.                                                                  *)
(***************************************************************************)

\* [[CellState::Off; WIDTH_USIZE]; HEIGHT_USIZE] with the cells of `on` On.
GridOf(on) ==
    [r \in RowIdx |-> [c \in ColIdx |-> IF <<r, c>> \in on THEN "On" ELSE "Off"]]

AllOff == GridOf({})

RECURSIVE SmallSubsets(_, _)
SmallSubsets(S, n) ==
    IF n = 0 THEN {{}}
    ELSE LET smaller == SmallSubsets(S, n - 1)
         IN  smaller \cup {T \cup {e} : T \in smaller, e \in S}

\* The subsets of `cells` with at most n members or at most n non-members.
FewOrMost(cells, n) ==
    LET few == SmallSubsets(cells, n)
    IN  few \cup {cells \ T : T \in few}

\* The first n cells of the grid in row-major order.
FirstCells(n) == {rc \in Cells : rc[1] * WIDTH_USIZE + rc[2] < n}

\* The outcomes of one coin flip per cell of the grid that the model draws,
\* as the set of cells that come out On: the first MaxFillOn cells, or all
\* cells but these.
FillOutcomes == {FirstCells(MaxFillOn), Cells \ FirstCells(MaxFillOn)}

\* The same for the cells of row 0, the others Off.
Row0Outcomes ==
    {FirstCells(MaxFillOn), ({0} \X ColIdx) \ FirstCells(MaxFillOn)}

\* The grids a run of one operation on its own starts from.
StartGrids == {GridOf(on) : on \in FewOrMost(Cells, MaxOn)}

(***************************************************************************)
(* The state.                                                              *)
(***************************************************************************)

VARIABLES
    rows,        \* World::rows
    rules,       \* World::rules
    generation,  \* World::generation
    rules_seed,        \* the seed of the randomize_rules call that built `rules`
    frame,       \* the byte buffer last handed to World::draw
    failure,     \* "none", or the panic that ended the process
    lastOp,      \* the operation performed last
    pc,          \* "idle", or "loop" inside the cell loop of World::update
    i,           \* the loop index of World::update
    next_state,  \* the local next_state of World::update
    codec,       \* the conversion in progress (the codec on its own)
    tick         \* the event loop: the event being handled and where its
                 \* callback is (the event loop on its own)

vars == <<rows, rules, generation, rules_seed, frame, failure, lastOp, pc, i,
          next_state, codec, tick>>

engineVars == <<rows, rules, generation, rules_seed, frame, failure, lastOp>>
loopVars == <<pc, i, next_state>>

(***************************************************************************)
(* World::update.                                                          *)
(***************************************************************************)

\* The left index without the wrap: column 0 is its own left neighbour.
left_neighbor_x_index_clamped(col) == IF col = 0 THEN 0 ELSE col - 1

left_neighbor_x_index(col) == IF col = 0 THEN WIDTH_USIZE - 1 ELSE col - 1

right_neighbor_x_index(col) == IF col = WIDTH_USIZE - 1 THEN 0 ELSE col + 1

upper_neighbor_y_index(row) == IF row = 0 THEN HEIGHT_USIZE - 1 ELSE row - 1

\* The lower index without the wrap: the last row is its own lower neighbour.
lower_neighbor_y_index_clamped(row) ==
    IF row = HEIGHT_USIZE - 1 THEN row ELSE row + 1

lower_neighbor_y_index(row) == IF row = HEIGHT_USIZE - 1 THEN 0 ELSE row + 1

\* The reads with upper and lower rows exchanged.
NeighborIndicesFlipped(row, col) ==
    << <<lower_neighbor_y_index(row), left_neighbor_x_index(col)>>,
       <<lower_neighbor_y_index(row), col>>,
       <<lower_neighbor_y_index(row), right_neighbor_x_index(col)>>,
       <<row, left_neighbor_x_index(col)>>,
       <<row, col>>,
       <<row, right_neighbor_x_index(col)>>,
       <<upper_neighbor_y_index(row), left_neighbor_x_index(col)>>,
       <<upper_neighbor_y_index(row), col>>,
       <<upper_neighbor_y_index(row), right_neighbor_x_index(col)>> >>

\* The <<row, column>> pairs the loop body reads for cell (row, col), in the
\* order of the array `state`.
NeighborIndices(row, col) ==
    << <<upper_neighbor_y_index(row), left_neighbor_x_index(col)>>,
       <<upper_neighbor_y_index(row), col>>,
       <<upper_neighbor_y_index(row), right_neighbor_x_index(col)>>,
       <<row, left_neighbor_x_index(col)>>,
       <<row, col>>,
       <<row, right_neighbor_x_index(col)>>,
       <<lower_neighbor_y_index(row), left_neighbor_x_index(col)>>,
       <<lower_neighbor_y_index(row), col>>,
       <<lower_neighbor_y_index(row), right_neighbor_x_index(col)>> >>

\* let state = [ self.rows[..][..], ... ] read from grid g.
NeighborState(g, row, col) ==
    [n \in 1..NeighborhoodSize |->
        g[NeighborIndices(row, col)[n][1]][NeighborIndices(row, col)[n][2]]]

\* match self.rules.get(&state.into()) { Some(s) => *s, None => Off }.  The
\* key type of Rules is InputState, so state.into() is From<[CellState; 9]>
\* for InputState.
RulesGet(table, state) ==
    LET key == InputStateFromArray(state)
    IN  IF key \in DOMAIN table THEN table[key] ELSE "Off"

\* The body of the loop for index n: the value written to
\* next_state[n / WIDTH_USIZE][n % WIDTH_USIZE], reading grid g.
next_cell_state(g, table, n) ==
    LET row == n \div WIDTH_USIZE
        col == n % WIDTH_USIZE
    IN  RulesGet(table, NeighborState(g, row, col))

\* next_state after the whole loop over 0..WIDTH_USIZE * HEIGHT_USIZE.
NextGrid(g, table) ==
    [r \in RowIdx |-> [c \in ColIdx |->
        next_cell_state(g, table, r * WIDTH_USIZE + c)]]

Running == failure = "none" /\ pc = "idle"

\* self.generation += 1 on a u32.  At u32::MAX the addition panics where
\* overflow checks are compiled in (the dev profile) and wraps to 0 where
\* they are not (the release profile): `ok` tells whether update goes on,
\* `generation` and `failure` are the values it leaves.
IncrementGeneration(g) ==
    IF g < GenerationMax
    THEN {[ok |-> TRUE, generation |-> g + 1, failure |-> "none"]}
    ELSE {[ok |-> TRUE, generation |-> 0, failure |-> "none"],
          [ok |-> FALSE, generation |-> g, failure |-> "add_overflow"]}

\* update with the reset that is commented out in its body: the rules are
\* rebuilt when the counter has reached its maximum.
update_rebuilding_rules ==
    /\ Running
    /\ lastOp' = "update"
    /\ \E inc \in IncrementGeneration(generation) :
          /\ generation' = inc.generation
          /\ failure' = inc.failure
          /\ rows' = IF inc.ok THEN NextGrid(rows, rules) ELSE rows
          /\ rules_seed' = IF inc.generation = GenerationMax
                           THEN (rules_seed + 1) % (MaxSeed + 1) ELSE rules_seed
          /\ rules' = RuleTable(rules_seed')
    /\ UNCHANGED <<frame, loopVars, codec, tick>>

\* fn update(&mut self), as one step.
update ==
    /\ Running
    /\ lastOp' = "update"
    /\ \E inc \in IncrementGeneration(generation) :
          /\ generation' = inc.generation
          /\ failure' = inc.failure
          /\ rows' = IF inc.ok THEN NextGrid(rows, rules) ELSE rows
    /\ UNCHANGED <<rules, rules_seed, frame, loopVars, codec, tick>>

\* fn update(&mut self), cell by cell: up to the loop,
update_begin ==
    /\ Running
    /\ \E inc \in IncrementGeneration(generation) :
          /\ generation' = inc.generation
          /\ failure' = inc.failure
          /\ pc' = IF inc.ok THEN "loop" ELSE "idle"
          /\ lastOp' = IF inc.ok THEN lastOp ELSE "update"
    /\ next_state' = AllOff
    /\ i' = 0
    /\ UNCHANGED <<rows, rules, rules_seed, frame, codec, tick>>

\* The loop body writing the cell into self.rows instead of next_state.
update_cell_in_place ==
    /\ pc = "loop"
    /\ i < WIDTH_USIZE * HEIGHT_USIZE
    /\ rows' = [rows EXCEPT ![i \div WIDTH_USIZE][i % WIDTH_USIZE] =
                   next_cell_state(rows, rules, i)]
    /\ next_state' = rows'
    /\ i' = i + 1
    /\ UNCHANGED <<rules, generation, rules_seed, frame, failure, lastOp, pc, codec, tick>>

\* one pass of the loop body,
update_cell ==
    /\ pc = "loop"
    /\ i < WIDTH_USIZE * HEIGHT_USIZE
    /\ next_state' = [next_state EXCEPT ![i \div WIDTH_USIZE][i % WIDTH_USIZE] =
                         next_cell_state(rows, rules, i)]
    /\ i' = i + 1
    /\ UNCHANGED <<engineVars, pc, codec, tick>>

\* and self.rows = next_state, after which the locals are gone.
update_end ==
    /\ pc = "loop"
    /\ i = WIDTH_USIZE * HEIGHT_USIZE
    /\ rows' = next_state
    /\ pc' = "idle"
    /\ lastOp' = "update"
    /\ next_state' = AllOff
    /\ i' = 0
    /\ UNCHANGED <<rules, generation, rules_seed, frame, failure, codec, tick>>

(***************************************************************************)
(* World::draw.                                                            *)
(***************************************************************************)

\* The colours commented out in World::draw: On => [0xf3, 0x7c, 0x1f, 0xff].
RgbaOrange(cell) ==
    IF cell = "On" THEN <<243, 124, 31, 255>> ELSE <<89, 87, 82, 255>>

\* CellState::On => [0xff, 0xff, 0xff, 0xff], Off => [0x59, 0x57, 0x52, 0xff]
Rgba(cell) ==
    IF cell = "On" THEN <<255, 255, 255, 255>> ELSE <<89, 87, 82, 255>>

\* A buffer of len zero bytes.
ZeroFrame(len) == [b \in 1..len |-> 0]

\* draw with a length check in front: a buffer of another length than
\* 4 * WIDTH * HEIGHT is refused and left alone.
World_draw_checked(g, buf) ==
    IF Len(buf) # 4 * WIDTH_USIZE * HEIGHT_USIZE
    THEN [frame |-> buf, failure |-> "BufferSizeMismatch"]
    ELSE [frame |-> [b \in 1..Len(buf) |->
                        Rgba(g[((b - 1) \div 4) \div WIDTH_USIZE]
                              [((b - 1) \div 4) % WIDTH_USIZE])
                            [((b - 1) % 4) + 1]],
          failure |-> "none"]

\* fn draw(&self, frame: &mut [u8]) on grid g and buffer buf.
\* frame.chunks_exact_mut(4) yields Len(buf) / 4 chunks and leaves the
\* remainder alone; chunk n reads self.rows[n / WIDTH_USIZE][n % WIDTH_USIZE],
\* an index panic when n / WIDTH_USIZE is no row, which ends the loop after
\* the chunks before n were written.
World_draw(g, buf) ==
    LET chunks == Len(buf) \div 4
        bad == {n \in 0..(chunks - 1) : (n \div WIDTH_USIZE) \notin RowIdx}
        written == {n \in 0..(chunks - 1) : \A m \in bad : n < m}
    IN  [ frame |-> [b \in 1..Len(buf) |->
                        IF ((b - 1) \div 4) \in written
                        THEN Rgba(g[((b - 1) \div 4) \div WIDTH_USIZE]
                                   [((b - 1) \div 4) % WIDTH_USIZE])
                                 [((b - 1) % 4) + 1]
                        ELSE buf[b]],
          failure |-> IF bad = {} THEN "none" ELSE "index_out_of_bounds" ]

\* world.draw(pixels.frame_mut()) of the event loop: the frame of the
\* pixel buffer, which keeps its FrameLen bytes from one draw to the next.
draw ==
    /\ Running
    /\ lastOp' = "draw"
    /\ frame' = World_draw(rows, frame).frame
    /\ failure' = World_draw(rows, frame).failure
    /\ UNCHANGED <<rows, rules, generation, rules_seed, loopVars, codec, tick>>

\* World::draw on a buffer of len bytes of the caller's: the lengths
\* around FrameLen, and all the shorter ones.
BufferLens == 0..(FrameLen + 4 * ExtraPixels)

\* World::draw takes &self and the buffer is fresh, so a draw changes
\* nothing that a later draw_into reads: one per run reaches all its outcomes.
draw_into ==
    /\ Running
    /\ lastOp # "draw"
    /\ lastOp' = "draw"
    /\ \E len \in BufferLens :
          LET drawn == World_draw(rows, ZeroFrame(len))
          IN  frame' = drawn.frame /\ failure' = drawn.failure
    /\ UNCHANGED <<rows, rules, generation, rules_seed, loopVars, codec, tick>>

(***************************************************************************)
(* The grid and rule commands of the event loop.                           *)
(***************************************************************************)

\* if let Some(new_rule) = framework.get_rule(): a new rule table, and every
\* cell On iff rand::random::<f32>() < 0.1.
reseed ==
    /\ Running
    /\ \E s \in Seeds, on \in FillOutcomes :
          /\ rules' = RuleTable(s)
          /\ rules_seed' = s
          /\ rows' = GridOf(on)
    /\ lastOp' = "reseed"
    /\ UNCHANGED <<generation, frame, failure, loopVars, codec, tick>>

\* The K branch with its outer loop one row short.
clear_but_last_row ==
    /\ Running
    /\ rows' = [r \in RowIdx |-> IF r = HEIGHT_USIZE - 1 THEN rows[r]
                                  ELSE [c \in ColIdx |-> "Off"]]
    /\ lastOp' = "clear"
    /\ UNCHANGED <<rules, generation, rules_seed, frame, failure, loopVars, codec, tick>>

\* if input.key_pressed(VirtualKeyCode::K): every cell Off.
clear ==
    /\ Running
    /\ rows' = [r \in RowIdx |-> [c \in ColIdx |-> "Off"]]
    /\ lastOp' = "clear"
    /\ UNCHANGED <<rules, generation, rules_seed, frame, failure, loopVars, codec, tick>>

\* if input.key_pressed(VirtualKeyCode::R): every cell On iff rand::random().
random_fill ==
    /\ Running
    /\ \E on \in FillOutcomes : rows' = GridOf(on)
    /\ lastOp' = "fill"
    /\ UNCHANGED <<rules, generation, rules_seed, frame, failure, loopVars, codec, tick>>

(***************************************************************************)
(* The program: World::new, then the operations in any order.              *)
(***************************************************************************)

CodecIdle == [stage |-> 0, src |-> "none", x0 |-> <<>>, k0 |-> 0,
              x |-> <<>>, k |-> 0]

\* event_loop.run(..) before its first event: the callback is not running,
\* no redraw was requested, nothing was done in this iteration of the loop.
TickIdle == [at |-> "wait", ev |-> "none", stage |-> "events",
             redraw |-> FALSE, pressed |-> {}, cmd |-> "none",
             steps |-> 0, draws |-> 0]

\* World::new(): randomize_rules(0), all cells Off but row 0, which is one
\* rand::random() coin flip per cell, generation 0.
World_new ==
    /\ rules = RuleTable(0)
    /\ rules_seed = 0
    /\ \E on \in Row0Outcomes : rows = GridOf(on)
    /\ generation = 0

Init ==
    /\ World_new
    /\ frame = ZeroFrame(FrameLen)
    /\ failure = "none"
    /\ lastOp = "new"
    /\ pc = "idle"
    /\ i = 0
    /\ next_state = AllOff
    /\ codec = CodecIdle
    /\ tick = TickIdle

Next ==
    \/ update
    \/ draw
    \/ reseed
    \/ clear
    \/ random_fill

Spec == Init /\ [][Next]_vars

(***************************************************************************)
(* One operation on its own, from the states a reseed leaves: any of the   *)
(* rule tables and any grid.                                               *)
(***************************************************************************)

AfterReseed ==
    /\ \E s \in Seeds : rules = RuleTable(s) /\ rules_seed = s
    /\ rows \in StartGrids
    /\ generation = 0
    /\ frame = ZeroFrame(FrameLen)
    /\ failure = "none"
    /\ lastOp = "reseed"
    /\ pc = "idle"
    /\ i = 0
    /\ next_state = AllOff
    /\ codec = CodecIdle
    /\ tick = TickIdle

\* World::update, cell by cell.
NextStep ==
    \/ update_begin
    \/ update_cell
    \/ update_end

SpecStep == AfterReseed /\ [][NextStep]_vars

\* World::draw, on the frame of the event loop and on buffers of any length.
NextDraw ==
    \/ draw
    \/ draw_into

SpecDraw == AfterReseed /\ [][NextDraw]_vars

(***************************************************************************)
(* World::update on a World whose rules lack entries.  Rules is a plain    *)
(* HashMap<InputState, CellState>: nothing in its type makes it total.     *)
(***************************************************************************)

\* The table `table` without the entries of the indices divisible by d.
WithoutMultiplesOf(table, d) ==
    LET kept == {k \in 0..(NumKeys - 1) :
                    k % d # 0 /\ InputStateFromU32(k) \in DOMAIN table}
    IN  [key \in {InputStateFromU32(k) : k \in kept} |-> table[key]]

SparseTables ==
    {<<s, d, WithoutMultiplesOf(RuleTable(s), d)>> :
        s \in Seeds, d \in 1..MaxDropStride}

AfterSparse ==
    /\ \E t \in SparseTables : rules = t[3] /\ rules_seed = t[1]
    /\ rows \in StartGrids
    /\ generation = 0
    /\ frame = ZeroFrame(FrameLen)
    /\ failure = "none"
    /\ lastOp = "new"
    /\ pc = "idle"
    /\ i = 0
    /\ next_state = AllOff
    /\ codec = CodecIdle
    /\ tick = TickIdle

SpecSparse == AfterSparse /\ [][NextStep]_vars

(***************************************************************************)
(* The codec on its own: a conversion, then the conversion back.           *)
(***************************************************************************)

\* The integers handed to From<u32> for InputState.
IndexInputs == 0..(NumKeys + ExtraIndices - 1)

\* RuleState::from(x) for an array x.
encode_array ==
    /\ codec.stage = 0
    /\ \E x \in InputStates :
          codec' = [stage |-> 1, src |-> "array", x0 |-> x, k0 |-> 0,
                    x |-> x, k |-> RuleStateFromArray(x)]
    /\ UNCHANGED <<engineVars, loopVars, tick>>

\* InputState::from(k) for a u32 k.
decode_u32 ==
    /\ codec.stage = 0
    /\ \E k \in IndexInputs :
          codec' = [stage |-> 1, src |-> "u32", x0 |-> <<>>, k0 |-> k,
                    x |-> InputStateFromU32(k), k |-> k]
    /\ UNCHANGED <<engineVars, loopVars, tick>>

\* The result of the first conversion, converted back.
convert_back ==
    /\ codec.stage = 1
    /\ \/ /\ codec.src = "array"
          /\ codec' = [codec EXCEPT !.stage = 2, !.x = InputStateFromU32(codec.k)]
       \/ /\ codec.src = "u32"
          /\ codec' = [codec EXCEPT !.stage = 2, !.k = RuleStateFromArray(codec.x)]
    /\ UNCHANGED <<engineVars, loopVars, tick>>

NextCodec ==
    \/ encode_array
    \/ decode_u32
    \/ convert_back

SpecCodec == Init /\ [][NextCodec]_vars

(***************************************************************************)
(* The event loop: event_loop.run(move |event, _, control_flow| { .. }).   *)
(* The callback runs once per event, to its end, before the next event is  *)
(* delivered.  In one iteration of the loop the window system delivers the *)
(* window events, then MainEventsCleared, then RedrawRequested (once at    *)
(* most: where request_redraw() was called since the last one, or where    *)
(* the window system wants the window redrawn), then RedrawEventsCleared.  *)
(* input.update(&event) returns true on MainEventsCleared only, and        *)
(* key_pressed tells the keys pressed since it last did.                   *)
(***************************************************************************)

Keys == {"Escape", "K", "R"}

\* The events the loop can deliver next.
EventsAt(stage, redraw) ==
    IF stage = "events" THEN {"WindowEvent", "MainEventsCleared"}
    ELSE IF stage = "cleared"
    THEN (IF redraw THEN {"RedrawRequested"}
          ELSE {"RedrawRequested", "RedrawEventsCleared"})
    ELSE {"RedrawEventsCleared"}

\* Where the iteration of the loop is after delivering event e.
StageAfter(stage, e) ==
    IF e = "MainEventsCleared" THEN "cleared"
    ELSE IF e = "RedrawRequested" THEN "redrawn"
    ELSE IF e = "RedrawEventsCleared" THEN "events"
    ELSE stage

\* The loop calls the callback with the next event.  With
\* MainEventsCleared come the keys pressed since the last one, those
\* input.key_pressed will report.  RedrawEventsCleared ends the tick: what
\* the tick did is forgotten.
dispatch ==
    /\ Running
    /\ tick.at = "wait"
    /\ \E e \in EventsAt(tick.stage, tick.redraw) :
          \E keys \in (IF e = "MainEventsCleared" THEN SUBSET Keys ELSE {{}}) :
             tick' = IF e = "RedrawEventsCleared"
                     THEN [TickIdle EXCEPT !.at = "top", !.ev = e,
                                           !.redraw = tick.redraw]
                     ELSE [tick EXCEPT !.at = "top", !.ev = e,
                                       !.stage = StageAfter(tick.stage, e),
                                       !.pressed = keys,
                                       !.redraw = IF e = "RedrawRequested"
                                                  THEN FALSE ELSE @]
    /\ UNCHANGED <<engineVars, loopVars, codec>>

\* if let Some(new_rule) = framework.get_rule() { .. }: a rule was entered,
\* the table is rebuilt and the grid refilled;
get_rule_some ==
    /\ Running
    /\ tick.at = "top"
    /\ \E s \in Seeds, on \in FillOutcomes :
          /\ rules' = RuleTable(s)
          /\ rules_seed' = s
          /\ rows' = GridOf(on)
    /\ lastOp' = "reseed"
    /\ tick' = [tick EXCEPT !.at = "input"]
    /\ UNCHANGED <<generation, frame, failure, loopVars, codec>>

\* or none was.
get_rule_none ==
    /\ Running
    /\ tick.at = "top"
    /\ tick' = [tick EXCEPT !.at = "input"]
    /\ UNCHANGED <<engineVars, loopVars, codec>>

\* Escape or a close request: *control_flow = ControlFlow::Exit; return.
key_Escape ==
    /\ Running
    /\ tick.at = "input"
    /\ tick.ev = "MainEventsCleared"
    /\ "Escape" \in tick.pressed
    /\ tick' = [tick EXCEPT !.at = "exited", !.cmd = "Escape"]
    /\ UNCHANGED <<engineVars, loopVars, codec>>

\* The K branch without its return: the grid is cleared and the callback
\* goes on to world.update().
key_K_no_return ==
    /\ Running
    /\ tick.at = "input"
    /\ tick.ev = "MainEventsCleared"
    /\ "Escape" \notin tick.pressed
    /\ "K" \in tick.pressed
    /\ rows' = [r \in RowIdx |-> [c \in ColIdx |-> "Off"]]
    /\ lastOp' = "clear"
    /\ tick' = [tick EXCEPT !.pressed = {}, !.cmd = "K"]
    /\ UNCHANGED <<rules, generation, rules_seed, frame, failure, loopVars, codec>>

\* if input.key_pressed(VirtualKeyCode::K) { .. return; }
key_K ==
    /\ Running
    /\ tick.at = "input"
    /\ tick.ev = "MainEventsCleared"
    /\ "Escape" \notin tick.pressed
    /\ "K" \in tick.pressed
    /\ rows' = [r \in RowIdx |-> [c \in ColIdx |-> "Off"]]
    /\ lastOp' = "clear"
    /\ tick' = [tick EXCEPT !.at = "wait", !.ev = "none", !.pressed = {},
                            !.cmd = "K"]
    /\ UNCHANGED <<rules, generation, rules_seed, frame, failure, loopVars, codec>>

\* if input.key_pressed(VirtualKeyCode::R) { .. return; }
key_R ==
    /\ Running
    /\ tick.at = "input"
    /\ tick.ev = "MainEventsCleared"
    /\ "Escape" \notin tick.pressed
    /\ "K" \notin tick.pressed
    /\ "R" \in tick.pressed
    /\ \E on \in FillOutcomes : rows' = GridOf(on)
    /\ lastOp' = "fill"
    /\ tick' = [tick EXCEPT !.at = "wait", !.ev = "none", !.pressed = {},
                            !.cmd = "R"]
    /\ UNCHANGED <<rules, generation, rules_seed, frame, failure, loopVars, codec>>

\* world.update() is called: up to its loop, as update_begin.
call_update ==
    /\ Running
    /\ tick.at = "input"
    /\ tick.ev = "MainEventsCleared"
    /\ tick.pressed = {}
    /\ \E inc \in IncrementGeneration(generation) :
          /\ generation' = inc.generation
          /\ failure' = inc.failure
          /\ pc' = IF inc.ok THEN "loop" ELSE "idle"
          /\ lastOp' = IF inc.ok THEN lastOp ELSE "update"
    /\ next_state' = AllOff
    /\ i' = 0
    /\ tick' = [tick EXCEPT !.at = "update", !.steps = @ + 1,
                            !.cmd = IF @ = "none" THEN "step" ELSE @]
    /\ UNCHANGED <<rows, rules, rules_seed, frame, codec>>

\* The for loop of World::update, all its passes: the callback runs alone,
\* nothing happens between two passes.
update_loop ==
    /\ pc = "loop"
    /\ i = 0
    /\ next_state' = NextGrid(rows, rules)
    /\ i' = WIDTH_USIZE * HEIGHT_USIZE
    /\ UNCHANGED <<engineVars, pc, codec, tick>>

\* world.update() has returned: window.request_redraw(); `match event`
\* has nothing to do for MainEventsCleared, and the callback ends.
request_redraw ==
    /\ Running
    /\ tick.at = "update"
    /\ tick' = [tick EXCEPT !.at = "wait", !.ev = "none", !.redraw = TRUE]
    /\ UNCHANGED <<engineVars, loopVars, codec>>

\* input.update(&event) is false, and Event::RedrawRequested(_) =>
\* world.draw(pixels.frame_mut()); the callback ends.
match_RedrawRequested ==
    /\ Running
    /\ tick.at = "input"
    /\ tick.ev = "RedrawRequested"
    /\ lastOp' = "draw"
    /\ frame' = World_draw(rows, frame).frame
    /\ failure' = World_draw(rows, frame).failure
    /\ tick' = [tick EXCEPT !.at = "wait", !.ev = "none", !.draws = @ + 1]
    /\ UNCHANGED <<rows, rules, generation, rules_seed, loopVars, codec>>

\* input.update(&event) is false, and Event::WindowEvent or `_ => ()`: the
\* callback ends.
match_other ==
    /\ Running
    /\ tick.at = "input"
    /\ tick.ev \in {"WindowEvent", "RedrawEventsCleared"}
    /\ tick' = [tick EXCEPT !.at = "wait", !.ev = "none"]
    /\ UNCHANGED <<engineVars, loopVars, codec>>

NextLoop ==
    \/ dispatch
    \/ get_rule_some
    \/ get_rule_none
    \/ key_Escape
    \/ key_K
    \/ key_R
    \/ call_update
    \/ update_loop
    \/ update_end
    \/ request_redraw
    \/ match_RedrawRequested
    \/ match_other

SpecLoop == Init /\ [][NextLoop]_vars

(***************************************************************************)
(* The claims.                                                             *)
(***************************************************************************)

\* (n) mod m for n >= -m.
Wrap(n, m) == (n + m) % m

\* The cells at rows r-1, r, r+1 and columns c-1, c, c+1 of grid g, wrapped,
\* upper-left first and lower-right last.
WrappedTuple(g, r, c) ==
    << g[Wrap(r - 1, HEIGHT)][Wrap(c - 1, WIDTH)],
       g[Wrap(r - 1, HEIGHT)][c],
       g[Wrap(r - 1, HEIGHT)][Wrap(c + 1, WIDTH)],
       g[r][Wrap(c - 1, WIDTH)],
       g[r][c],
       g[r][Wrap(c + 1, WIDTH)],
       g[Wrap(r + 1, HEIGHT)][Wrap(c - 1, WIDTH)],
       g[Wrap(r + 1, HEIGHT)][c],
       g[Wrap(r + 1, HEIGHT)][Wrap(c + 1, WIDTH)] >>

\* C1: when World::update completes, every cell (r, c) of the new grid is
\* the rule table's output for the tuple of the old grid's cells at rows
\* r-1, r, r+1 and columns c-1, c, c+1 (wrapped), upper-left first; the key
\* the step looks up is the key randomize_rules stored index encode(tuple)
\* under.
C1_StepAppliesRule ==
    [][(pc = "loop" /\ pc' = "idle") =>
          \A r \in RowIdx, c \in ColIdx :
             LET t == WrappedTuple(rows, r, c)
                 stored == InputStateFromU32(RuleStateFromArray(t))
             IN  /\ InputStateFromArray(NeighborState(rows, r, c)) = stored
                 /\ stored \in DOMAIN rules
                 /\ rows'[r][c] = rules[stored]]_vars

\* A step has completed and left cells On and cells Off.
C1_Witness ==
    /\ lastOp = "update"
    /\ pc = "idle"
    /\ generation >= 1
    /\ \E r \in RowIdx, c \in ColIdx : rows[r][c] = "On"
    /\ \E r \in RowIdx, c \in ColIdx : rows[r][c] = "Off"

\* Bit n (from 0) of k.
Bit(k, n) == (k \div (2 ^ n)) % 2

\* C2: decode(encode(x)) = x for every 9-tuple x, encode sets bit n iff
\* x[n] is On, and encode(decode(k)) = k for every k below 512.
C2_CodecRoundTrip ==
    /\ (codec.stage >= 1 /\ codec.src = "array") =>
          \A n \in 0..(NeighborhoodSize - 1) :
             (Bit(codec.k, n) = 1) <=> (codec.x0[n + 1] = "On")
    /\ (codec.stage = 2 /\ codec.src = "array") => codec.x = codec.x0
    /\ (codec.stage = 2 /\ codec.src = "u32" /\ codec.k0 < NumKeys) =>
          codec.k = codec.k0

\* A tuple with On and Off cells has gone through encode and decode.
C2_Witness ==
    /\ codec.stage = 2
    /\ codec.src = "array"
    /\ codec.x0[1] = "On" /\ codec.x0[2] = "Off" /\ codec.x0[9] = "On"
    /\ codec.k = 257

\* The cells of grid g whose gathered neighbourhood holds an On cell.
SeesOn(g) ==
    {rc \in Cells : \E n \in 1..NeighborhoodSize :
                       NeighborState(g, rc[1], rc[2])[n] = "On"}

\* C3: the neighbour indices the step uses for a cell (r, c) are (r-1) mod
\* HEIGHT, (r+1) mod HEIGHT, (c-1) mod WIDTH and (c+1) mod WIDTH, all within
\* the grid; with only the top-left cell On, the cells whose neighbourhood
\* holds an On cell are those of rows HEIGHT-1, 0, 1 and columns WIDTH-1, 0, 1.
C3_ToroidalWraparound ==
    /\ (pc = "loop" /\ i < WIDTH * HEIGHT) =>
          LET r == i \div WIDTH
              c == i % WIDTH
          IN  /\ upper_neighbor_y_index(r) = Wrap(r - 1, HEIGHT)
              /\ lower_neighbor_y_index(r) = Wrap(r + 1, HEIGHT)
              /\ left_neighbor_x_index(c) = Wrap(c - 1, WIDTH)
              /\ right_neighbor_x_index(c) = Wrap(c + 1, WIDTH)
              /\ \A n \in 1..NeighborhoodSize :
                    /\ NeighborIndices(r, c)[n][1] \in 0..(HEIGHT - 1)
                    /\ NeighborIndices(r, c)[n][2] \in 0..(WIDTH - 1)
    /\ (rows = GridOf({<<0, 0>>})) =>
          SeesOn(rows) = {HEIGHT - 1, 0, 1 % HEIGHT} \X {WIDTH - 1, 0, 1 % WIDTH}

\* The step is at the last cell of a grid with only the top-left cell On.
C3_Witness ==
    /\ pc = "loop"
    /\ i = WIDTH * HEIGHT - 1
    /\ rows = GridOf({<<0, 0>>})

\* C4: generation goes up by exactly 1 on every World::update call, never
\* goes down, and no other operation changes it.
C4_GenerationMonotonic ==
    [][/\ (lastOp' = "update") => generation' = generation + 1
       /\ (lastOp' # "update") => generation' = generation
       /\ generation' >= generation]_vars

\* C5: during a step the visible grid is not written (every neighbourhood
\* read is of the pre-step grid), the cells computed so far are in the
\* separate next_state, and the grid is replaced by next_state only after
\* all WIDTH * HEIGHT cells were computed.
C5_DoubleBuffer ==
    [][/\ (rows' # rows) =>
             (pc = "loop" /\ i = WIDTH * HEIGHT /\ rows' = next_state)
       /\ (pc' = "loop") =>
             \A n \in 0..(i' - 1) :
                next_state'[n \div WIDTH][n % WIDTH] =
                   RulesGet(rules', WrappedTuple(rows', n \div WIDTH, n % WIDTH))]_vars

\* The step is in mid-loop and has computed cells that differ from the grid.
C5_Witness ==
    /\ pc = "loop"
    /\ i > 0 /\ i < WIDTH * HEIGHT
    /\ \E n \in 0..(i - 1) :
          next_state[n \div WIDTH][n % WIDTH] # rows[n \div WIDTH][n % WIDTH]

\* C6: a table built by randomize_rules has an output for every index below
\* 512 (checked where the table has just been built: the table is not
\* written anywhere else), and the key a step is about to look up for its
\* current cell is in the table, so the missing-entry path is never taken.
C6_RuleTableTotal ==
    /\ (pc = "idle" /\ lastOp \in {"new", "reseed"}) =>
          \A k \in 0..(NumKeys - 1) : InputStateFromU32(k) \in DOMAIN rules
    /\ (pc = "loop" /\ i < WIDTH * HEIGHT) =>
          InputStateFromArray(NeighborState(rows, i \div WIDTH, i % WIDTH))
             \in DOMAIN rules

\* A step has completed on the table of a seed other than World::new's.
C6_Witness ==
    /\ lastOp = "update"
    /\ generation >= 1
    /\ rules_seed = MaxSeed
    /\ rules = randomize_rules(MaxSeed)

\* C8: World::draw on a buffer whose length is not 4 * WIDTH * HEIGHT fails
\* with a reported BufferSizeMismatch and leaves the grid as it was.
C8_BufferSizeMismatch ==
    [][(lastOp' = "draw" /\ Len(frame') # 4 * WIDTH * HEIGHT) =>
          (failure' = "BufferSizeMismatch" /\ rows' = rows)]_vars

\* C9: step, reseed, clear and random fill never fail.
C9_NeverFails == failure = "none"

\* C10: randomize_rules makes 512 draws, one per index, and the output
\* stored for index k is On iff the draw made for k is below 0.1.
C10_OneDrawPerIndex ==
    /\ DrawsPerBuild = NumKeys
    /\ \A k \in 0..(NumKeys - 1) :
          (rules[InputStateFromU32(k)] = "On") <=> (Gen(rules_seed, k) < 1)

\* C11: in every tick of the event loop (one iteration, from the end of
\* the last RedrawEventsCleared to the end of the next) world.update() is called at most once and world.draw() at most
\* once; while the step is in its loop the callback is inside
\* world.update() and the tick's render has not happened, so the render
\* reads the grid the completed step left; and a tick that handled K or R
\* has called no step.
C11_TickOrdering ==
    /\ tick.steps <= 1
    /\ tick.draws <= 1
    /\ (pc = "loop") => (tick.at = "update" /\ tick.draws = 0)
    /\ (tick.ev = "RedrawRequested") => pc = "idle"
    /\ (tick.cmd \in {"K", "R"}) => tick.steps = 0

\* A tick has stepped the grid and then rendered it.
C11_Witness ==
    /\ tick.steps = 1
    /\ tick.draws = 1
    /\ tick.cmd = "step"
    /\ lastOp = "draw"
    /\ generation >= 1

\* C12: the rule table changes only in a reseed, which leaves the table
\* randomize_rules builds for the seed entered, with all its 512 keys; step,
\* clear, random fill and draw leave the table as it was.
C12_RulesChangeOnlyOnReseed ==
    [][/\ (rules' # rules) => lastOp' = "reseed"
       /\ (lastOp' \in {"update", "clear", "fill", "draw"}) => rules' = rules
       /\ (lastOp' = "reseed") =>
             /\ rules_seed' \in Seeds
             /\ rules' = RuleTable(rules_seed')
             /\ Cardinality(DOMAIN rules') = NumKeys]_vars

\* A reseed has replaced the table World::new built, and a step, a draw and
\* a clear have run on the new one.
C12_Witness ==
    /\ rules # RuleTable(0)
    /\ rules = RuleTable(rules_seed)
    /\ lastOp = "clear"
    /\ generation >= 1
    /\ \E b \in 1..Len(frame) : frame[b] # 0

\* C14: the K command leaves every cell Off, whatever the grid held, and
\* leaves the rule table and the generation counter as they were.
C14_ClearSetsAllOff ==
    [][(lastOp' = "clear") =>
          /\ \A r \in RowIdx, c \in ColIdx : rows'[r][c] = "Off"
          /\ rules' = rules
          /\ rules_seed' = rules_seed
          /\ generation' = generation]_vars

\* The K command has run after a grid with On cells was drawn, on a table
\* of a reseed and a counter that has counted.
C14_Witness ==
    /\ lastOp = "clear"
    /\ rows = AllOff
    /\ generation >= 1
    /\ rules_seed = MaxSeed
    /\ \E b \in 1..Len(frame) : frame[b] = 89
    /\ \E b \in 1..Len(frame) : frame[b] = 255 /\ b % 4 = 1

\* The colour of a cell as the claims state it: On is ff ff ff ff, Off is
\* 59 57 52 ff.
Colour(cell) ==
    IF cell = "On" THEN <<255, 255, 255, 255>> ELSE <<89, 87, 82, 255>>

\* Byte b (from 1) of the rendering of grid g in row-major order.
RowMajorByte(g, b) ==
    Colour(g[((b - 1) \div 4) \div WIDTH][((b - 1) \div 4) % WIDTH])
       [((b - 1) % 4) + 1]

\* C13: after World::draw on a buffer of 4 * WIDTH * HEIGHT bytes, the 4
\* bytes at offset 4 * n hold the colour of cell (n div WIDTH, n mod WIDTH),
\* so every byte is written, and the grid is as it was.
C13_RenderMapping ==
    [][(lastOp' = "draw" /\ Len(frame') = 4 * WIDTH * HEIGHT) =>
          /\ failure' = "none"
          /\ rows' = rows
          /\ \A n \in 0..(WIDTH * HEIGHT - 1) :
                SubSeq(frame', 4 * n + 1, 4 * n + 4) =
                   Colour(rows[n \div WIDTH][n % WIDTH])]_vars

\* A grid with On and Off cells was drawn into a buffer of the exact length.
C13_Witness ==
    /\ lastOp = "draw"
    /\ failure = "none"
    /\ Len(frame) = 4 * WIDTH * HEIGHT
    /\ \E r \in RowIdx, c \in ColIdx : rows[r][c] = "On"
    /\ \E r \in RowIdx, c \in ColIdx : rows[r][c] = "Off"
    /\ \E b \in 1..Len(frame) : frame[b] = 82

\* C18: after World::draw on a buffer of L <= 4 * WIDTH * HEIGHT bytes that
\* held zeros, the first L div 4 pixels hold the colours of the first
\* L div 4 cells in row-major order, the L mod 4 bytes after them are still
\* zero and nothing has failed; on a buffer of more than WIDTH * HEIGHT
\* whole pixels the draw has indexed a row beyond the grid.
C18_DrawOnAnyLength ==
    (lastOp = "draw") =>
       /\ (Len(frame) <= 4 * WIDTH * HEIGHT) =>
             /\ failure = "none"
             /\ \A b \in 1..Len(frame) :
                   frame[b] = IF b <= 4 * (Len(frame) \div 4)
                              THEN RowMajorByte(rows, b) ELSE 0
       /\ (Len(frame) \div 4 > WIDTH * HEIGHT) =>
             failure = "index_out_of_bounds"

\* A grid with an On cell first was drawn into a buffer that ends inside
\* a pixel, short of the grid.
C18_Witness ==
    /\ lastOp = "draw"
    /\ failure = "none"
    /\ Len(frame) = 4 * WIDTH + 3
    /\ rows[0][0] = "On"
    /\ frame[1] = 255
    /\ frame[4 * WIDTH + 1] = 0

\* C15: whatever the rule table, a call of World::update does not fail, and
\* when it completes every cell whose gathered neighbourhood has no entry
\* in the table is Off in the new grid (and every other cell is what its
\* entry says).
C15_MissingRuleIsOff ==
    [][/\ failure' = "none"
       /\ (pc = "loop" /\ pc' = "idle") =>
             \A r \in RowIdx, c \in ColIdx :
                LET key == WrappedTuple(rows, r, c)
                IN  rows'[r][c] = IF key \in DOMAIN rules THEN rules[key]
                                  ELSE "Off"]_vars

\* The missing-rule part of C15 alone: the new grid of a completed step.
C15_PolicyOnly ==
    [][(pc = "loop" /\ pc' = "idle") =>
          \A r \in RowIdx, c \in ColIdx :
             LET key == WrappedTuple(rows, r, c)
             IN  rows'[r][c] = IF key \in DOMAIN rules THEN rules[key]
                               ELSE "Off"]_vars

\* C16: every index encode produces is in 0..511, also for the tuple decoded
\* from an integer of 512 or more, whose index is the integer's low 9 bits;
\* and the table randomize_rules builds has exactly 512 keys, fewer than
\* the integers its loop runs over.
C16_IndexSpace ==
    /\ (codec.stage >= 1 /\ codec.src = "array") => codec.k \in 0..(NumKeys - 1)
    /\ (codec.stage = 2 /\ codec.src = "u32") =>
          /\ codec.k \in 0..(NumKeys - 1)
          /\ codec.k = codec.k0 % NumKeys
    /\ Cardinality(DOMAIN rules) = NumKeys
    /\ \A s \in Seeds : Cardinality(DOMAIN RuleTable(s)) = NumKeys
    /\ NumKeys < RuleIterations

\* An integer past 511 was decoded and its tuple encoded.
C16_Witness ==
    /\ codec.stage = 2
    /\ codec.src = "u32"
    /\ codec.k0 = NumKeys + 5
    /\ codec.k = 5

\* Grid g shifted cyclically by dr rows and dc columns: the cell at (r, c)
\* of g is at ((r + dr) mod HEIGHT, (c + dc) mod WIDTH) of the result.
Shift(g, dr, dc) ==
    [r \in 0..(HEIGHT - 1) |-> [c \in 0..(WIDTH - 1) |->
        g[(r + HEIGHT - dr) % HEIGHT][(c + WIDTH - dc) % WIDTH]]]

Uniform(g) ==
    \A r \in 0..(HEIGHT - 1), c \in 0..(WIDTH - 1) : g[r][c] = g[0][0]

\* C17: when World::update completes, the new grid shifted by (dr, dc) is
\* the step of the old grid shifted by (dr, dc), for every shift; and the
\* step of a uniform grid is uniform.
C17_StepCommutesWithShift ==
    [][(pc = "loop" /\ pc' = "idle") =>
          /\ \A dr \in 0..(HEIGHT - 1), dc \in 0..(WIDTH - 1) :
                NextGrid(Shift(rows, dr, dc), rules) = Shift(rows', dr, dc)
          /\ Uniform(rows) => Uniform(rows')]_vars

\* A step has completed on a grid that no shift by one maps to itself.
C17_Witness ==
    /\ lastOp = "update"
    /\ pc = "idle"
    /\ rows # Shift(rows, 0, 1)
    /\ rows # Shift(rows, 1, 0)

=============================================================================
